---------------------------- MODULE Spec2Model ----------------------------
(***************************************************************************)
(* A model of src/main.py, the art-format detector: the decision cascade   *)
(* decide_format_coverage, the coverage extractors over a page's images,   *)
(* text blocks and drawings, the clip selection rect_from_params, and the  *)
(* upload / open / compute / close / remove life cycle of the two routes.  *)
(*                                                                         *)
(* Numbers.  The code computes in Python floats, IEEE 754 binary64 with    *)
(* round-to-nearest, ties-to-even, and so does the model: a float x >= 0   *)
(* is [m |-> mantissa, e |-> exponent] with x = m * 2^e, the mantissa a    *)
(* 53-bit natural number written as four digits of 14 bits, least          *)
(* significant first, and 0.0 is [m |-> <<>>, e |-> 0].  Every operation   *)
(* computes the exact result and rounds it once, as the hardware does.     *)
(* No float of the code is negative, infinite, NaN or subnormal.           *)
(* Lengths are counted in half points, so that the vertical midpoint of a  *)
(* page of whole-point height is an integer.  Decimal literals of the code *)
(* are written per mille (0.02 is PerMille(20)).                           *)
(***************************************************************************)
EXTENDS Integers, Sequences, FiniteSets, TLC

VARIABLES
    dArgs,      \* decision cascade: the six arguments of the latest call
    dLast,      \* decision cascade: "none" before the first call, then what
                \* led to the latest call: "call", "raise_raster", "raise_vector"
    dPrevFmt,   \* decision cascade: the label of the call before the latest
    dFmt,       \* decision cascade: the label returned by the latest call
    page,       \* analysis: the loaded page (rect, images, blocks, drawings)
    form,       \* analysis: request.form, a function from field names to strings
    pPhase,     \* analysis: "request" before the analysis, "responded" after
    out,        \* analysis: the clip, the metrics and the label computed
    reqs,       \* server: each request's route, upload and form
    loc,        \* server: each request's locals and position in the route
    links,      \* server: the upload folder, path -> inode
    idata       \* server: the content of each inode

dvars == <<dArgs, dLast, dPrevFmt, dFmt>>
pvars == <<page, form, pPhase, out>>
svars == <<reqs, loc, links, idata>>

vars == <<dArgs, dLast, dPrevFmt, dFmt, page, form, pPhase, out, reqs, loc, links, idata>>

---------------------------------------------------------------------------
(* Natural numbers of any size, as sequences of digits in base 2^14, least *)
(* significant digit first and no leading zero digit (0 is <<>>): the      *)
(* exact sums, products and quotients of mantissas before rounding.        *)

Max(a, b) == IF a >= b THEN a ELSE b
Min(a, b) == IF a <= b THEN a ELSE b

LimbBits  == 2 * 7
Base      == 2 ^ LimbBits
MantBits  == 50 + 3
MantLimbs == 2 + 2

RECURSIVE BitsOf(_)
BitsOf(x) == IF x = 0 THEN 0 ELSE 1 + BitsOf(x \div 2)

Zeros(k) == [i \in 1 .. k |-> 0]

RECURSIVE BTrim(_)
BTrim(s) ==
    IF Len(s) = 0 THEN <<>>
    ELSE IF s[Len(s)] = 0 THEN BTrim(SubSeq(s, 1, Len(s) - 1)) ELSE s

RECURSIVE IntToB(_)
IntToB(n) == IF n = 0 THEN <<>> ELSE <<n % Base>> \o IntToB(n \div Base)

RECURSIVE BToInt(_)
BToInt(s) == IF s = <<>> THEN 0 ELSE s[1] + Base * BToInt(Tail(s))

BitLen(s) == IF s = <<>> THEN 0 ELSE LimbBits * (Len(s) - 1) + BitsOf(s[Len(s)])

Limb(s, i) == IF i <= Len(s) THEN s[i] ELSE 0

(* a + b + c from digit i on, c the carry.                                 *)
RECURSIVE BAddFrom(_, _, _, _)
BAddFrom(a, b, i, c) ==
    IF i > Len(a) /\ i > Len(b) THEN (IF c = 0 THEN <<>> ELSE <<c>>)
    ELSE <<(Limb(a, i) + Limb(b, i) + c) % Base>>
         \o BAddFrom(a, b, i + 1, (Limb(a, i) + Limb(b, i) + c) \div Base)

BAdd(a, b) == BAddFrom(a, b, 1, 0)
BInc(a)    == BAddFrom(a, <<>>, 1, 1)

(* a - b - c from digit i on for a >= b, c the borrow.                     *)
RECURSIVE BSubFrom(_, _, _, _)
BSubFrom(a, b, i, c) ==
    IF i > Len(a) THEN <<>>
    ELSE <<(a[i] - Limb(b, i) - c + Base) % Base>>
         \o BSubFrom(a, b, i + 1, IF a[i] - Limb(b, i) - c < 0 THEN 1 ELSE 0)

BSub(a, b) == BTrim(BSubFrom(a, b, 1, 0))

(* -1, 0 or 1 as a < b, a = b or a > b.                                    *)
RECURSIVE BCmpFrom(_, _, _)
BCmpFrom(a, b, i) ==
    IF i = 0 THEN 0
    ELSE IF a[i] < b[i] THEN 0 - 1
    ELSE IF a[i] > b[i] THEN 1
    ELSE BCmpFrom(a, b, i - 1)

BCmp(a, b) ==
    IF Len(a) < Len(b) THEN 0 - 1
    ELSE IF Len(a) > Len(b) THEN 1
    ELSE BCmpFrom(a, b, Len(a))

(* a * k + c for a digit k, from digit i on.                               *)
RECURSIVE BMulSFrom(_, _, _, _)
BMulSFrom(a, k, i, c) ==
    IF i > Len(a) THEN (IF c = 0 THEN <<>> ELSE <<c>>)
    ELSE <<(a[i] * k + c) % Base>> \o BMulSFrom(a, k, i + 1, (a[i] * k + c) \div Base)

BMulS(a, k) == IF k = 0 THEN <<>> ELSE BMulSFrom(a, k, 1, 0)

RECURSIVE BMulFrom(_, _, _)
BMulFrom(a, b, i) ==
    IF i > Len(b) THEN <<>>
    ELSE BAdd(Zeros(i - 1) \o BMulS(a, b[i]), BMulFrom(a, b, i + 1))

BMul(a, b) == IF a = <<>> \/ b = <<>> THEN <<>> ELSE BMulFrom(a, b, 1)

(* a * 2^k and floor(a / 2^k).                                             *)
BShl(a, k) ==
    IF a = <<>> THEN a ELSE Zeros(k \div LimbBits) \o BMulS(a, 2 ^ (k % LimbBits))

BShrBits(s, t) ==
    BTrim([i \in 1 .. Len(s) |->
              (s[i] \div 2 ^ t) + (Limb(s, i + 1) % 2 ^ t) * 2 ^ (LimbBits - t)])

BShr(a, k) ==
    IF k \div LimbBits >= Len(a) THEN <<>>
    ELSE BShrBits(SubSeq(a, k \div LimbBits + 1, Len(a)), k % LimbBits)

(* Bit k of a (bit 0 the lowest), and whether any bit below bit k is set.  *)
BBit(a, k) == (Limb(a, k \div LimbBits + 1) \div 2 ^ (k % LimbBits)) % 2

BLowBits(a, k) ==
    \/ Limb(a, k \div LimbBits + 1) % 2 ^ (k % LimbBits) # 0
    \/ \E i \in 1 .. Min(k \div LimbBits, Len(a)) : a[i] # 0

(* Long division: the quotient of r * Base^n by d, digit by digit, for a   *)
(* d whose top digit is at least Base / 2 and r < d.  Each digit is        *)
(* estimated from the two top digits of the remainder and lowered until    *)
(* it fits; [q, r] are the quotient and the last remainder.                *)
RECURSIVE QFix(_, _, _)
QFix(r, d, q) == IF BCmp(BMulS(d, q), r) > 0 THEN QFix(r, d, q - 1) ELSE q

QEst(r, d) ==
    IF Len(r) < Len(d) THEN 0
    ELSE QFix(r, d, Min(Base - 1, (Limb(r, Len(d) + 1) * Base + r[Len(d)]) \div d[Len(d)]))

RECURSIVE BDivLimbs(_, _, _, _)
BDivStep(r, d, q, n, qh) == BDivLimbs(BSub(r, BMulS(d, qh)), d, <<qh>> \o q, n)
BDivLimbs(r, d, q, n) ==
    IF n = 0 THEN [q |-> BTrim(q), r |-> r]
    ELSE BDivStep(IF r = <<>> THEN r ELSE <<0>> \o r, d, q, n - 1,
                  QEst(IF r = <<>> THEN r ELSE <<0>> \o r, d))

(* floor(a * Base^n / d) and the remainder, for a < 2 * d.                 *)
BDivFirst(a, d, n) ==
    IF BCmp(a, d) >= 0 THEN BDivLimbs(BSub(a, d), d, <<1>>, n) ELSE BDivLimbs(a, d, <<>>, n)

---------------------------------------------------------------------------
(* Python floats.                                                          *)

(* n / 2^k rounded to an integer, to nearest and ties to even; `sticky`    *)
(* says that the exact value lies above n.                                 *)
RoundUp(n, q, k, sticky) ==
    /\ BBit(n, k - 1) = 1
    /\ (sticky \/ BLowBits(n, k - 1) \/ Limb(q, 1) % 2 = 1)

RoundTo(n, q, k, sticky) == IF RoundUp(n, q, k, sticky) THEN BInc(q) ELSE q

RoundShift(n, k, sticky) ==
    IF k <= 0 THEN BShl(n, 0 - k) ELSE RoundTo(n, BShr(n, k), k, sticky)

(* A mantissa that rounding carried to 2^53 is halved.                     *)
Renorm(q, e) ==
    IF BitLen(q) > MantBits THEN [m |-> BShr(q, 1), e |-> e + 1] ELSE [m |-> q, e |-> e]

FZero == [m |-> <<>>, e |-> 0]

RoundAt(n, e, k, sticky) == Renorm(RoundShift(n, k, sticky), e + k)

(* The float nearest to n * 2^e, or to a value just above it (sticky).     *)
RoundFloat(n, e, sticky) ==
    IF n = <<>> THEN FZero ELSE RoundAt(n, e, BitLen(n) - MantBits, sticky)

(* float(n * 2^e) and float(n) for an integer n >= 0.                      *)
FromDyadic(n, e) == RoundFloat(IntToB(n), e, FALSE)
FromInt(n) == FromDyadic(n, 0)

FOne == FromInt(1)

(* -1, 0 or 1 as a < b, a == b or a > b.                                   *)
FCmp(a, b) ==
    IF a.m = <<>> THEN (IF b.m = <<>> THEN 0 ELSE 0 - 1)
    ELSE IF b.m = <<>> THEN 1
    ELSE IF a.e # b.e THEN (IF a.e < b.e THEN 0 - 1 ELSE 1)
    ELSE BCmpFrom(a.m, b.m, MantLimbs)

FLE(a, b) == FCmp(a, b) <= 0
FLT(a, b) == FCmp(a, b) < 0
FGE(a, b) == FCmp(a, b) >= 0

(* min(a, b) and max(a, b): the first argument unless the second is        *)
(* strictly smaller (larger).                                              *)
FMin(a, b) == IF FLT(b, a) THEN b ELSE a
FMax(a, b) == IF FLT(a, b) THEN b ELSE a

(* a + b for a.e >= b.e; a b below half an ulp of a is absorbed.           *)
FAddOrdered(a, b) ==
    IF a.e - b.e > MantBits + 2 THEN a
    ELSE RoundFloat(BAdd(BShl(a.m, a.e - b.e), b.m), b.e, FALSE)

FAdd(a, b) ==
    IF a.m = <<>> THEN b
    ELSE IF b.m = <<>> THEN a
    ELSE IF a.e >= b.e THEN FAddOrdered(a, b) ELSE FAddOrdered(b, a)

FMul(a, b) == RoundFloat(BMul(a.m, b.m), a.e + b.e, FALSE)

FDivRound(res, e) == RoundFloat(res.q, e, res.r # <<>>)

(* a / b for b > 0: 56 or 57 bits of the quotient of the mantissas (both   *)
(* scaled by 8 to bring the divisor's top digit to Base / 2 or more),      *)
(* then one rounding.                                                      *)
FDiv(a, b) ==
    IF a.m = <<>> THEN FZero
    ELSE FDivRound(BDivFirst(BMulS(a.m, 8), BMulS(b.m, 8), MantLimbs),
                   a.e - b.e - MantLimbs * LimbBits)

(* The float of the literal or quotient n / d of two integers.             *)
Frac(n, d) == FDiv(FromInt(n), FromInt(d))

(* The floats of the decimal literals 0.000, 0.001 .. 1.000.               *)
PerMilleFloats == [k \in 0 .. 1000 |-> Frac(k, 1000)]

PerMille(k) == PerMilleFloats[k]

(* round(x, digits) in units of 10^-digits (scale = 10^digits): the exact  *)
(* value of x * scale to the nearest integer, ties to even.  round()       *)
(* returns the float nearest to that many units.                           *)
RoundInt(p, e) == BToInt(RoundShift(p, 0 - e, FALSE))

Round(x, scale) == IF x.m = <<>> THEN 0 ELSE RoundInt(BMul(x.m, IntToB(scale)), x.e)

(* str.lower() on the strings that occur as origin tags and path operators *)
Lower(s) ==
    CASE s = "PDF" -> "pdf"
      [] s = "Pdf" -> "pdf"
      [] s = "L"   -> "l"
      [] s = "C"   -> "c"
      [] s = "RE"  -> "re"
      [] OTHER     -> s

---------------------------------------------------------------------------
(* decide_format_coverage: thresholds, per mille unless named otherwise.   *)

NoRasterMax        == 20     \* raster_cov <= 0.02
VectorCovMin       == 30     \* vector_cov >= 0.03
TextCovMin         == 25     \* text_cov >= 0.025
NoRasterSegs       == 20     \* vector_segments >= 20
RasterMargin       == 10     \* raster_cov >= vector_cov + 0.01
VectorMargin       == 120    \* vector_cov >= raster_cov + 0.12
RasterPresentMin   == 150    \* raster_cov >= 0.15
VectorSmallMax     == 300    \* vector_cov <= 0.30
PureVectorRasterMax == 30    \* raster_cov <= 0.03
PureVectorSegs     == 40     \* vector_segments >= 40
LowDetailSegs      == 18     \* vector_segments >= 18
LowDetailDpi       == 40     \* native_dpi_min < 40 (dots per inch)
LowDetailRasterMin == 100    \* raster_cov >= 0.10

HAS_RASTER == "has raster"
HAS_VECTOR == "has vector"

(* A plausible slip: the low-detail override tested before the clear wins. *)
decide_return_dpi_first(raster_cov, vector_cov, vector_segments, raster_count, text_cov, native_dpi_min) ==
    IF /\ FLE(raster_cov, PerMille(NoRasterMax))
       /\ \/ FGE(vector_cov, PerMille(VectorCovMin))
          \/ FGE(text_cov, PerMille(TextCovMin))
          \/ raster_count = 0
          \/ vector_segments >= NoRasterSegs
    THEN 1
    ELSE IF /\ vector_segments >= LowDetailSegs
            /\ native_dpi_min # FZero
            /\ FLT(native_dpi_min, FromInt(LowDetailDpi))
            /\ FGE(raster_cov, PerMille(LowDetailRasterMin))
    THEN 6
    ELSE IF FGE(raster_cov, FAdd(vector_cov, PerMille(RasterMargin)))
    THEN 2
    ELSE IF FGE(vector_cov, FAdd(raster_cov, PerMille(VectorMargin)))
    THEN 3
    ELSE IF FGE(raster_cov, PerMille(RasterPresentMin)) /\ FLE(vector_cov, PerMille(VectorSmallMax))
    THEN 4
    ELSE IF FLE(raster_cov, PerMille(PureVectorRasterMax)) /\ vector_segments >= PureVectorSegs
    THEN 5
    ELSE 7

(* A plausible slip: the no-raster guard without its raster_count clause.  *)
decide_return_no_count(raster_cov, vector_cov, vector_segments, raster_count, text_cov, native_dpi_min) ==
    IF /\ FLE(raster_cov, PerMille(NoRasterMax))
       /\ \/ FGE(vector_cov, PerMille(VectorCovMin))
          \/ FGE(text_cov, PerMille(TextCovMin))
          \/ vector_segments >= NoRasterSegs
    THEN 1
    ELSE IF FGE(raster_cov, FAdd(vector_cov, PerMille(RasterMargin)))
    THEN 2
    ELSE IF FGE(vector_cov, FAdd(raster_cov, PerMille(VectorMargin)))
    THEN 3
    ELSE IF FGE(raster_cov, PerMille(RasterPresentMin)) /\ FLE(vector_cov, PerMille(VectorSmallMax))
    THEN 4
    ELSE IF FLE(raster_cov, PerMille(PureVectorRasterMax)) /\ vector_segments >= PureVectorSegs
    THEN 5
    ELSE IF /\ vector_segments >= LowDetailSegs
            /\ native_dpi_min # FZero
            /\ FLT(native_dpi_min, FromInt(LowDetailDpi))
            /\ FGE(raster_cov, PerMille(LowDetailRasterMin))
    THEN 6
    ELSE 7

(* A plausible slip: the comparison of the "small vector coverage" test    *)
(* turned round (vector_cov >= 0.30 for vector_cov <= 0.30).               *)
decide_return_flipped(raster_cov, vector_cov, vector_segments, raster_count, text_cov, native_dpi_min) ==
    IF /\ FLE(raster_cov, PerMille(NoRasterMax))
       /\ \/ FGE(vector_cov, PerMille(VectorCovMin))
          \/ FGE(text_cov, PerMille(TextCovMin))
          \/ raster_count = 0
          \/ vector_segments >= NoRasterSegs
    THEN 1
    ELSE IF FGE(raster_cov, FAdd(vector_cov, PerMille(RasterMargin)))
    THEN 2
    ELSE IF FGE(vector_cov, FAdd(raster_cov, PerMille(VectorMargin)))
    THEN 3
    ELSE IF FGE(raster_cov, PerMille(RasterPresentMin)) /\ FGE(vector_cov, PerMille(VectorSmallMax))
    THEN 4
    ELSE IF FLE(raster_cov, PerMille(PureVectorRasterMax)) /\ vector_segments >= PureVectorSegs
    THEN 5
    ELSE IF /\ vector_segments >= LowDetailSegs
            /\ native_dpi_min # FZero
            /\ FLT(native_dpi_min, FromInt(LowDetailDpi))
            /\ FGE(raster_cov, PerMille(LowDetailRasterMin))
    THEN 6
    ELSE 7

(* A plausible slip: the comparison of the pure-vector safeguard turned    *)
(* round (raster_cov >= 0.03 for raster_cov <= 0.03).                      *)
decide_return_pure_flipped(raster_cov, vector_cov, vector_segments, raster_count, text_cov, native_dpi_min) ==
    IF /\ FLE(raster_cov, PerMille(NoRasterMax))
       /\ \/ FGE(vector_cov, PerMille(VectorCovMin))
          \/ FGE(text_cov, PerMille(TextCovMin))
          \/ raster_count = 0
          \/ vector_segments >= NoRasterSegs
    THEN 1
    ELSE IF FGE(raster_cov, FAdd(vector_cov, PerMille(RasterMargin)))
    THEN 2
    ELSE IF FGE(vector_cov, FAdd(raster_cov, PerMille(VectorMargin)))
    THEN 3
    ELSE IF FGE(raster_cov, PerMille(RasterPresentMin)) /\ FLE(vector_cov, PerMille(VectorSmallMax))
    THEN 4
    ELSE IF FGE(raster_cov, PerMille(PureVectorRasterMax)) /\ vector_segments >= PureVectorSegs
    THEN 5
    ELSE IF /\ vector_segments >= LowDetailSegs
            /\ native_dpi_min # FZero
            /\ FLT(native_dpi_min, FromInt(LowDetailDpi))
            /\ FGE(raster_cov, PerMille(LowDetailRasterMin))
    THEN 6
    ELSE 7

(* The return statement the call leaves by, numbered in source order:      *)
(* 1 (line 189), 2 (193), 3 (195), 4 (199), 5 (203), 6 (207), 7 (210).     *)
(* "native_dpi_min and ..." is Python truthiness: a non-zero number.       *)
decide_return(raster_cov, vector_cov, vector_segments, raster_count, text_cov, native_dpi_min) ==
    IF /\ FLE(raster_cov, PerMille(NoRasterMax))
       /\ \/ FGE(vector_cov, PerMille(VectorCovMin))
          \/ FGE(text_cov, PerMille(TextCovMin))
          \/ raster_count = 0
          \/ vector_segments >= NoRasterSegs
    THEN 1
    ELSE IF FGE(raster_cov, FAdd(vector_cov, PerMille(RasterMargin)))
    THEN 2
    ELSE IF FGE(vector_cov, FAdd(raster_cov, PerMille(VectorMargin)))
    THEN 3
    ELSE IF FGE(raster_cov, PerMille(RasterPresentMin)) /\ FLE(vector_cov, PerMille(VectorSmallMax))
    THEN 4
    ELSE IF FLE(raster_cov, PerMille(PureVectorRasterMax)) /\ vector_segments >= PureVectorSegs
    THEN 5
    ELSE IF /\ vector_segments >= LowDetailSegs
            /\ native_dpi_min # FZero
            /\ FLT(native_dpi_min, FromInt(LowDetailDpi))
            /\ FGE(raster_cov, PerMille(LowDetailRasterMin))
    THEN 6
    ELSE 7

(* The string each return statement returns.                               *)
ReturnLabel(k) == IF k \in {1, 3, 5, 6} THEN HAS_VECTOR ELSE HAS_RASTER

decide_format_coverage(raster_cov, vector_cov, vector_segments, raster_count, text_cov, native_dpi_min) ==
    ReturnLabel(decide_return(raster_cov, vector_cov, vector_segments, raster_count, text_cov, native_dpi_min))

---------------------------------------------------------------------------
(* The decision cascade on its own: a call on arguments drawn from the     *)
(* sets below, then a call with one coverage argument raised and the       *)
(* others kept.  Every argument tuple is an initial state, so the raises   *)
(* from the first call cover every pair of calls that differ in one        *)
(* coverage.  The coverages are floats of decimal literals, per mille:     *)
(* the thresholds themselves (0.02, 0.03, 0.10, 0.15, 0.30), values either *)
(* side of and between them, and pairs whose float sum with a margin is    *)
(* not the float of the decimal sum (0.14 + 0.01 > 0.15, 0.05 + 0.01 >     *)
(* 0.06, 0.17 + 0.12 > 0.29, 0.45 + 0.12 > 0.57).                          *)

MaxCount == 1
CovKs    == {0, 20, 25, 30, 50, 60, 100, 140, 150, 170, 190, 200, 290, 300, 450, 570, 1000}
TextKs   == {0, 25}
SegVals  == {0, 18, 20, 25, 40}
DpiVals  == {0, 10, 40}

(* k hundredths, the float of the literal 0.0k.                            *)
Pct(k) == PerMille(10 * k)

Grid == {PerMille(k) : k \in CovKs}

DecideInputs ==
    [raster_cov : Grid, vector_cov : Grid, vector_segments : SegVals,
     raster_count : 0 .. MaxCount, text_cov : {PerMille(k) : k \in TextKs},
     native_dpi_min : {FromInt(x) : x \in DpiVals}]

DecideOn(a) ==
    decide_format_coverage(a.raster_cov, a.vector_cov, a.vector_segments,
                           a.raster_count, a.text_cov, a.native_dpi_min)

ReturnOn(a) ==
    decide_return(a.raster_cov, a.vector_cov, a.vector_segments,
                  a.raster_count, a.text_cov, a.native_dpi_min)

DInit ==
    /\ dArgs \in DecideInputs
    /\ dLast = "none"
    /\ dPrevFmt = ""
    /\ dFmt = ""
    /\ page = <<>> /\ form = <<>> /\ pPhase = "idle" /\ out = <<>>
    /\ reqs = <<>> /\ loc = <<>> /\ links = <<>> /\ idata = <<>>

DecideCall ==
    /\ dLast = "none"
    /\ dFmt' = DecideOn(dArgs)
    /\ dLast' = "call"
    /\ UNCHANGED <<dArgs, dPrevFmt>>
    /\ UNCHANGED pvars
    /\ UNCHANGED svars

RaiseRaster ==
    /\ dLast = "call"
    /\ \E r2 \in Grid :
          /\ FLT(dArgs.raster_cov, r2)
          /\ dArgs' = [dArgs EXCEPT !.raster_cov = r2]
          /\ dFmt' = DecideOn(dArgs')
    /\ dPrevFmt' = dFmt
    /\ dLast' = "raise_raster"
    /\ UNCHANGED pvars
    /\ UNCHANGED svars

RaiseVector ==
    /\ dLast = "call"
    /\ \E v2 \in Grid :
          /\ FLT(dArgs.vector_cov, v2)
          /\ dArgs' = [dArgs EXCEPT !.vector_cov = v2]
          /\ dFmt' = DecideOn(dArgs')
    /\ dPrevFmt' = dFmt
    /\ dLast' = "raise_vector"
    /\ UNCHANGED pvars
    /\ UNCHANGED svars

DNext == DecideCall \/ RaiseRaster \/ RaiseVector

SpecDecide == DInit /\ [][DNext]_vars

---------------------------------------------------------------------------
(* Geometry: fitz.Rect as main.py uses it.  A rect is [x0, y0, x1, y1] in   *)
(* half points.  Rect() keeps the coordinates it is given: x1 < x0 is an    *)
(* invalid rect, which the library treats as empty.                         *)

Rect(x0, y0, x1, y1) == [x0 |-> x0, y0 |-> y0, x1 |-> x1, y1 |-> y1]

is_empty(r) == r.x0 >= r.x1 \/ r.y0 >= r.y1
is_valid(r) == r.x0 <= r.x1 /\ r.y0 <= r.y1

(* bool(rect), the test of "if rect": false only for Rect(0, 0, 0, 0).      *)
rect_truthy(r) == ~(r.x0 = 0 /\ r.y0 = 0 /\ r.x1 = 0 /\ r.y1 = 0)

(* rect.width and rect.height, in half points; never negative.              *)
width(r)  == Max(0, r.x1 - r.x0)
height(r) == Max(0, r.y1 - r.y0)

(* rect.get_area(), in square points: width * height, each a whole number   *)
(* of half points, so the product is exact.                                 *)
get_area(r) == FromDyadic(width(r) * height(r), 0 - 2)

(* a.intersect(b): b when b is empty, a when a is empty, else the edgewise  *)
(* max / min, which is an invalid rect when the two are disjoint.           *)
intersect(a, b) ==
    IF is_empty(b) THEN b
    ELSE IF is_empty(a) THEN a
    ELSE Rect(Max(a.x0, b.x0), Max(a.y0, b.y0), Min(a.x1, b.x1), Min(a.y1, b.y1))

(* a.intersects(b): the two are not empty and neither is their common part. *)
intersects(a, b) ==
    IF is_empty(a) \/ is_empty(b) THEN FALSE ELSE ~is_empty(intersect(a, b))

---------------------------------------------------------------------------
(* RegionSelector: bottom_half_rect and rect_from_params.                  *)

(* r.y0 + r.height / 2.0: the page's height is a whole number of points,    *)
(* hence an even number of half points.                                     *)
bottom_half_rect(pr) == Rect(pr.x0, pr.y0 + (height(pr) \div 2), pr.x1, pr.y1)

(* float(s), in half points, for the strings the requests carry; any other  *)
(* string raises ValueError.                                                *)
FloatOf ==
    [s \in {"-1", "0", "0.5", "1", "1.5", "2", "2.5", "3", "4", "5", "10"} |->
        CASE s = "-1" -> -2 [] s = "0" -> 0 [] s = "0.5" -> 1 [] s = "1" -> 2
          [] s = "1.5" -> 3 [] s = "2" -> 4 [] s = "2.5" -> 5 [] s = "3" -> 6
          [] s = "4" -> 8 [] s = "5" -> 10 [] s = "10" -> 20]

(* data[key] then float(): fails on a missing key or a non-numeric string.  *)
float_ok(data, key) == key \in DOMAIN data /\ data[key] \in DOMAIN FloatOf

(* (data.get(key) or "")                                                    *)
get_or_empty(data, key) == IF key \in DOMAIN data THEN data[key] ELSE ""

rect_from_params(pr, data) ==
    IF DOMAIN data = {} \/ Lower(get_or_empty(data, "coordsOrigin")) # "pdf"
    THEN bottom_half_rect(pr)
    ELSE IF ~(\A k \in {"x", "y", "width", "height"} : float_ok(data, k))
    THEN bottom_half_rect(pr)
    ELSE LET x == FloatOf[data["x"]]
             y == FloatOf[data["y"]]
             w == FloatOf[data["width"]]
             h == FloatOf[data["height"]]
         IN  Rect(Max(pr.x0, x), Max(pr.y0, y), Min(pr.x1, x + w), Min(pr.y1, y + h))

---------------------------------------------------------------------------
(* CoverageExtractor.  An image is [xref, bbox_ok, bbox, px_w, px_h,        *)
(* extract_ok]; a block is [rect, n, type] (n the length of the tuple       *)
(* get_text("blocks") gives); a drawing is [has_rect, rect, width, fill,    *)
(* items] with fill TRUE when d.get("fill") is not None.                    *)

AreaFloor    == 1      \* max(1.0, clip.get_area()), square points
HairlineMax  == 250    \* width <= 0.25
PanelFrac    == 150    \* frac >= 0.15
PanelItems   == 8      \* len(items) < 8
SmallPathMax == 5      \* len(items) <= 5
PanelWeight  == 50     \* weight = 0.05
RectWeight   == 150    \* weight = 0.15
PathWeight   == 300    \* weight = 0.30
DrawFactor   == 300    \* text_cov + 0.30 * draw_cov
PtsPerInch   == 72     \* inter_rect.width / 72.0

(* max(1.0, clip.get_area())                                                *)
clip_area_of(clip) == FMax(FromInt(AreaFloor), get_area(clip))

(* The images the loops of lines 83-97 and 160-176 do not skip.             *)
image_counts(img) == img.xref # 0 /\ img.bbox_ok

(* total += inter.get_area(), from image i on, in the order of the list.    *)
RECURSIVE raster_total_from(_, _, _, _)
raster_total_from(images, clip, i, total) ==
    IF i > Len(images) THEN total
    ELSE raster_total_from(images, clip, i + 1,
             IF image_counts(images[i])
             THEN FAdd(total, get_area(intersect(images[i].bbox, clip)))
             ELSE total)

raster_total(images, clip) == raster_total_from(images, clip, 1, FZero)

(* A plausible slip: the clamp to 1.0 left out.                            *)
sum_raster_coverage_unclamped(pg, clip) ==
    FDiv(raster_total(pg.images, clip), clip_area_of(clip))

(* The second component of the pair sum_raster_coverage_in_clip returns.    *)
sum_raster_coverage_in_clip(pg, clip) ==
    FMin(FOne, FDiv(raster_total(pg.images, clip), clip_area_of(clip)))

block_type(b) == IF b.n >= 7 THEN b.type ELSE 0

(* total += r.intersect(clip).get_area(), from block i on.                  *)
RECURSIVE text_total_from(_, _, _, _)
text_total_from(blocks, clip, i, total) ==
    IF i > Len(blocks) THEN total
    ELSE text_total_from(blocks, clip, i + 1,
             IF block_type(blocks[i]) # 0
             THEN total
             ELSE FAdd(total, get_area(intersect(blocks[i].rect, clip))))

text_total(blocks, clip) == text_total_from(blocks, clip, 1, FZero)

text_coverage_in_clip(pg, clip) ==
    FMin(FOne, FDiv(text_total(pg.blocks, clip), clip_area_of(clip)))

is_op(items, op) == \E i \in 1 .. Len(items) : Lower(items[i]) = op

(* A drawing the loop of lines 125-151 skips: an unfilled hairline, one     *)
(* with no rect, one whose intersection with the clip has no area.          *)
drawing_skipped(d, clip) ==
    \/ FLE(d.width, PerMille(HairlineMax)) /\ ~d.fill
    \/ ~d.has_rect
    \/ FLE(get_area(intersect(d.rect, clip)), FZero)

(* A plausible slip: every shape weighted as an ordinary path.             *)
drawing_weight_flat(d, clip) == PerMille(PathWeight)

(* The weight lines 144-150 give a drawing that is not skipped.             *)
drawing_weight(d, clip) ==
    LET frac       == FDiv(get_area(intersect(d.rect, clip)), clip_area_of(clip))
        is_rect_op == is_op(d.items, "re")
        has_stroke == FLT(PerMille(HairlineMax), d.width)
        small_path == Len(d.items) <= SmallPathMax
    IN  IF \/ is_rect_op /\ FGE(frac, PerMille(PanelFrac))
           \/ d.fill /\ ~has_stroke /\ small_path /\ FGE(frac, PerMille(PanelFrac))
        THEN PerMille(PanelWeight)
        ELSE IF is_rect_op THEN PerMille(RectWeight)
        ELSE PerMille(PathWeight)

(* weighted_area += inter_area * weight, from drawing i on.                 *)
RECURSIVE weighted_area_from(_, _, _, _)
weighted_area_from(drawings, clip, i, total) ==
    IF i > Len(drawings) THEN total
    ELSE weighted_area_from(drawings, clip, i + 1,
             IF drawing_skipped(drawings[i], clip)
             THEN total
             ELSE FAdd(total, FMul(get_area(intersect(drawings[i].rect, clip)),
                                   drawing_weight(drawings[i], clip))))

weighted_area(drawings, clip) == weighted_area_from(drawings, clip, 1, FZero)

drawings_coverage_in_clip(pg, clip) ==
    FMin(FOne, FDiv(weighted_area(pg.drawings, clip), clip_area_of(clip)))

---------------------------------------------------------------------------
(* SegmentCounter: count_vector_segments_in.                               *)

PathOps == {"m", "l", "c", "v", "y", "h", "re"}

(* The number of items the loop of lines 66-73 counts for one drawing.      *)
counted_items(d) ==
    IF ~d.fill /\ FLE(d.width, PerMille(HairlineMax)) THEN 0
    ELSE Cardinality({i \in 1 .. Len(d.items) : Lower(d.items[i]) \in PathOps})

(* "rect" is None without the key, and "if rect" is bool(rect).             *)
segments_of(d, clip) ==
    LET has == d.has_rect /\ rect_truthy(d.rect)
    IN  IF has /\ ~intersects(d.rect, clip) THEN 0
        ELSE IF /\ has
                /\ FGE(FDiv(get_area(intersect(d.rect, clip)), clip_area_of(clip)),
                       PerMille(PanelFrac))
                /\ Len(d.items) < PanelItems
        THEN 0
        ELSE counted_items(d)

RECURSIVE segs_total(_, _)
segs_total(drawings, clip) ==
    IF drawings = <<>> THEN 0
    ELSE segments_of(Head(drawings), clip) + segs_total(Tail(drawings), clip)

count_vector_segments_in(pg, clip) == segs_total(pg.drawings, clip)

---------------------------------------------------------------------------
(* NativeResolutionEstimator: find_largest_image_in_clip and the DPI of     *)
(* lines 249-272.                                                          *)

(* The loop of lines 160-176 over the images from position i on: `best` is  *)
(* the index of the best image so far (0 for None).                         *)
RECURSIVE largest_from(_, _, _, _, _)
largest_from(images, clip, i, best, best_area) ==
    IF i > Len(images) THEN best
    ELSE LET img == images[i]
             a   == IF image_counts(img) THEN get_area(intersect(img.bbox, clip)) ELSE FZero
         IN  IF image_counts(img) /\ FLT(best_area, a)
             THEN largest_from(images, clip, i + 1, i, a)
             ELSE largest_from(images, clip, i + 1, best, best_area)

find_largest_image_in_clip(pg, clip) == largest_from(pg.images, clip, 1, 0, FZero)

(* inter_rect.width / 72.0 if inter_rect.width else 0, for a width of w     *)
(* half points: the placed size in inches.                                  *)
placed_in(w) == IF w = 0 THEN FZero ELSE FDiv(FromDyadic(w, 0 - 1), FromInt(PtsPerInch))

(* (native_px / placed_in) if placed_in > 0 else 0                          *)
dpi_of(px, placed) == IF FLT(FZero, placed) THEN FDiv(FromInt(px), placed) ELSE FZero

(* The values behind the dict `native` before rounding; present only when  *)
(* an image was found.  placed_w and placed_h are in inches.               *)
native_raster(pg, clip) ==
    LET k == find_largest_image_in_clip(pg, clip)
    IN  IF k = 0
        THEN [present |-> FALSE, nativePxW |-> 0, nativePxH |-> 0,
              placed_w |-> FZero, placed_h |-> FZero,
              dpi_x |-> FZero, dpi_y |-> FZero, dpi_min |-> FZero]
        ELSE LET img   == pg.images[k]
                 inter == intersect(img.bbox, clip)
                 pw    == IF img.extract_ok THEN img.px_w ELSE 0
                 ph    == IF img.extract_ok THEN img.px_h ELSE 0
                 plw   == placed_in(width(inter))
                 plh   == placed_in(height(inter))
                 dx    == dpi_of(pw, plw)
                 dy    == dpi_of(ph, plh)
                 dmin  == IF dx # FZero /\ dy # FZero THEN FMin(dx, dy) ELSE FZero
             IN  [present |-> TRUE, nativePxW |-> pw, nativePxH |-> ph,
                  placed_w |-> plw, placed_h |-> plh,
                  dpi_x |-> dx, dpi_y |-> dy, dpi_min |-> dmin]

---------------------------------------------------------------------------
(* detect_art_format, lines 234-295: the analysis of a loaded page.        *)

(* The metrics and the label; dpi10 is round(dpi_min, 1) in tenths, and    *)
(* the float of that decimal is the "nativeDpiMin" that line 280 hands to  *)
(* the decision (0 when no image was found).                               *)
Analysis(pg, data) ==
    LET clip            == rect_from_params(pg.rect, data)
        native          == native_raster(pg, clip)
        dpi10           == Round(native.dpi_min, 10)
        raster_cov      == sum_raster_coverage_in_clip(pg, clip)
        text_cov        == text_coverage_in_clip(pg, clip)
        draw_cov        == drawings_coverage_in_clip(pg, clip)
        vector_cov      == FMax(FZero, FMin(FOne, FAdd(text_cov, FMul(PerMille(DrawFactor), draw_cov))))
        vector_segments == count_vector_segments_in(pg, clip)
        raster_count    == Len(pg.images)
        fmt             == decide_format_coverage(raster_cov, vector_cov, vector_segments,
                                                  raster_count, text_cov, Frac(dpi10, 10))
    IN  [clip |-> clip, raster_cov |-> raster_cov, text_cov |-> text_cov,
         draw_cov |-> draw_cov, vector_cov |-> vector_cov,
         vector_segments |-> vector_segments, raster_count |-> raster_count,
         native |-> native, nativeDpiMin |-> dpi10, format |-> fmt,
         region |-> IF Lower(get_or_empty(data, "coordsOrigin")) = "pdf"
                    THEN "clip" ELSE "bottom-half"]

(* The rounded numbers of the JSON response, lines 264-272 and 288-291:    *)
(* coverages and inches in thousandths, DPI in tenths.                     *)
Rounded(a) ==
    [rasterCoverage |-> Round(a.raster_cov, 1000), textCoverage |-> Round(a.text_cov, 1000),
     drawingsCoverage |-> Round(a.draw_cov, 1000),
     effectiveVectorCoverage |-> Round(a.vector_cov, 1000),
     placedWIn |-> Round(a.native.placed_w, 1000), placedHIn |-> Round(a.native.placed_h, 1000),
     nativeDpiX |-> Round(a.native.dpi_x, 10), nativeDpiY |-> Round(a.native.dpi_y, 10)]

(* The pages and requests analysed.  A page is PageW half points wide and   *)
(* 2 * PageHalfH high and holds at most MaxObjects objects taken, in this   *)
(* order, from the lists below.                                             *)

PageW      == 8
PageHalfH  == 4
MaxObjects == 3

PageRect == Rect(0, 0, PageW, 2 * PageHalfH)

Rep(op, k) == [i \in 1 .. k |-> op]

Image(xref, ok, bbox, pw, ph, ex) ==
    [xref |-> xref, bbox_ok |-> ok, bbox |-> bbox, px_w |-> pw, px_h |-> ph, extract_ok |-> ex]

ImageChoices ==
    << Image(1, TRUE, Rect(0, 4, 8, 8), 1, 1, TRUE),        \* fills the bottom half, 18 dpi
       Image(2, TRUE, Rect(0, 0, 4, 6), 100, 100, TRUE),    \* straddles the midline
       Image(3, TRUE, Rect(6, 6, 7, 7), 4, 4, TRUE),        \* a thumbnail
       Image(4, TRUE, Rect(2, 4, 6, 8), 50, 50, FALSE),     \* extract_image raises
       Image(5, FALSE, Rect(0, 0, 0, 0), 10, 10, TRUE),     \* get_image_bbox raises
       Image(0, TRUE, Rect(0, 4, 8, 8), 10, 10, TRUE) >>    \* no xref

Block(r, n, type) == [rect |-> r, n |-> n, type |-> type]

BlockChoices ==
    << Block(Rect(0, 6, 8, 8), 7, 0),                       \* a paragraph
       Block(Rect(1, 5, 2, 6), 7, 0),                       \* a word
       Block(Rect(0, 4, 8, 8), 7, 1),                       \* an image block
       Block(Rect(5, 4, 7, 5), 4, 0) >>                     \* a bare rect, no type

Drawing(has, r, w, fill, items) ==
    [has_rect |-> has, rect |-> r, width |-> w, fill |-> fill, items |-> items]

DrawingChoices ==
    << Drawing(TRUE, Rect(0, 4, 8, 8), FZero, TRUE, <<"re">>),            \* a filled panel
       Drawing(TRUE, Rect(1, 5, 3, 6), FZero, TRUE, <<"re">>),            \* a small filled box
       Drawing(TRUE, Rect(2, 4, 6, 8), FZero, TRUE,
               Rep("l", 10) \o Rep("c", 8) \o Rep("qu", 2)),              \* a filled logo
       Drawing(TRUE, Rect(1, 5, 3, 6), PerMille(100), FALSE, <<"re">>),     \* a hairline box
       Drawing(TRUE, Rect(3, 3, 7, 7), FOne, FALSE, <<"L", "c", "l">>),   \* a stroked curve
       Drawing(FALSE, Rect(0, 0, 0, 0), FZero, TRUE, Rep("l", 40)) >>     \* no "rect" key

(* Sequences of j indices into a list of k choices, in rising order.        *)
Picks(k, j) == {s \in [1 .. j -> 1 .. k] : \A i \in 1 .. (j - 1) : s[i] <= s[i + 1]}

Pick(choices, s) == [i \in 1 .. Len(s) |-> choices[s[i]]]

FormChoices ==
    { <<>>,
      [coordsOrigin |-> "page", x |-> "0", y |-> "0", width |-> "2", height |-> "2"],
      [coordsOrigin |-> "PDF", x |-> "0", y |-> "0", width |-> "4", height |-> "4"],
      [coordsOrigin |-> "pdf", x |-> "1", y |-> "2", width |-> "2", height |-> "2"],
      [coordsOrigin |-> "pdf", x |-> "-1", y |-> "3", width |-> "10", height |-> "10"],
      [coordsOrigin |-> "pdf", x |-> "0.5", y |-> "2.5", width |-> "0.5", height |-> "0.5"],
      [coordsOrigin |-> "pdf", x |-> "4", y |-> "0", width |-> "2", height |-> "2"],
      [coordsOrigin |-> "pdf", x |-> "5", y |-> "0", width |-> "2", height |-> "2"],
      [coordsOrigin |-> "pdf", x |-> "2", y |-> "2", width |-> "-1", height |-> "1"],
      [coordsOrigin |-> "pdf", x |-> "abc", y |-> "0", width |-> "2", height |-> "2"],
      [coordsOrigin |-> "pdf", x |-> "0", y |-> "0", width |-> "2"],
      [x |-> "0", y |-> "0", width |-> "2", height |-> "2"] }

BlankPage == [rect |-> PageRect, images |-> <<>>, blocks |-> <<>>, drawings |-> <<>>]

NoOut == [a |-> Analysis(BlankPage, <<>>), json |-> Rounded(Analysis(BlankPage, <<>>))]

PInit ==
    /\ \E ni \in 0 .. MaxObjects :
         \E nb \in 0 .. (MaxObjects - ni) :
           \E nd \in 0 .. (MaxObjects - ni - nb) :
             \E si \in Picks(Len(ImageChoices), ni) :
               \E sb \in Picks(Len(BlockChoices), nb) :
                 \E sd \in Picks(Len(DrawingChoices), nd) :
                   page = [rect |-> PageRect,
                           images |-> Pick(ImageChoices, si),
                           blocks |-> Pick(BlockChoices, sb),
                           drawings |-> Pick(DrawingChoices, sd)]
    /\ form \in FormChoices
    /\ pPhase = "request"
    /\ out = NoOut
    /\ dArgs = <<>> /\ dLast = "idle" /\ dPrevFmt = "" /\ dFmt = ""
    /\ reqs = <<>> /\ loc = <<>> /\ links = <<>> /\ idata = <<>>

(* The body of the route once the page is loaded, up to the response.      *)
Detect ==
    /\ pPhase = "request"
    /\ \E a \in {Analysis(page, form)} :
         out' = [a |-> a, json |-> Rounded(a)]
    /\ pPhase' = "responded"
    /\ UNCHANGED <<page, form>>
    /\ UNCHANGED dvars
    /\ UNCHANGED svars

PNext == Detect

SpecPage == PInit /\ [][PNext]_vars

---------------------------------------------------------------------------
(* The two routes as request handlers over the shared upload folder.  Up   *)
(* to NReq requests are in flight; each runs the route's statements in     *)
(* order, and the statements of different requests interleave.             *)
(*                                                                         *)
(* The folder is `links`, a function from the paths that exist to inode    *)
(* numbers, and `idata`, the content of each inode ever created.  Opening  *)
(* a path for writing truncates the inode the path names, or creates one;  *)
(* a writer keeps its own offset and keeps writing to the inode it opened  *)
(* after the path is removed or the inode truncated by another writer.     *)
(* File contents are sequences of units, a unit standing for a run of      *)
(* bytes: file.save copies the upload ChunkUnits units at a time (its      *)
(* buffer), so that a reader can meet an empty file, a prefix, or the      *)
(* units of two uploads mixed.  fitz.open is taken to read the whole file  *)
(* when it is called.                                                      *)

NReq == 2

ChunkUnits == 2

Reqs == 1 .. NReq

UPLOAD_FOLDER == "uploads"

(* os.path.join(dir, name) for a relative name.                            *)
path_join(dir, name) == dir \o "/" \o name

(* int(float(v)) for the strings the requests carry; None and any other    *)
(* string raise, and the default is returned.                              *)
safe_int(v, default) ==
    CASE v = "0"   -> 0
      [] v = "1.9" -> 1
      [] v = "7"   -> 7
      [] v = "-3"  -> 0 - 3
      [] OTHER     -> default

(* request.form.get(key): None when the field is missing.                  *)
form_get(data, key) == IF key \in DOMAIN data THEN data[key] ELSE "None"

(* The documents uploaded.  `units` is the length of the upload, `opens`   *)
(* whether fitz.open accepts its bytes; `pages` are the pages;             *)
(* `unreadable` holds the indices of the pages on which get_images and     *)
(* get_pixmap raise.                                                       *)
PhotoPage ==
    [rect |-> PageRect, images |-> <<ImageChoices[2]>>, blocks |-> <<>>, drawings |-> <<>>]

LogoPage ==
    [rect |-> PageRect, images |-> <<>>, blocks |-> <<>>, drawings |-> <<DrawingChoices[3]>>]

Docs ==
    [photo   |-> [units |-> 1, opens |-> TRUE,  pages |-> <<PhotoPage>>,           unreadable |-> {}],
     mixed   |-> [units |-> 3, opens |-> TRUE,  pages |-> <<LogoPage, PhotoPage>>, unreadable |-> {}],
     nopages |-> [units |-> 1, opens |-> TRUE,  pages |-> <<>>,                    unreadable |-> {}],
     damaged |-> [units |-> 2, opens |-> FALSE, pages |-> <<>>,                    unreadable |-> {}],
     broken  |-> [units |-> 1, opens |-> TRUE,  pages |-> <<LogoPage>>,            unreadable |-> {0}]]

(* Unit k of the bytes of an upload, the PNG of page k of a document, and  *)
(* the zero bytes of a hole left by a write beyond the end of a file.      *)
Unit(kind, doc, k) == [kind |-> kind, doc |-> doc, k |-> k]

Hole == Unit("hole", "", 0)

(* The bytes of an upload, and of the PNG pix.save writes.                 *)
Bytes(doc) == [k \in 1 .. Docs[doc].units |-> Unit("pdf", doc, k)]

PngBytes(doc, idx) == <<Unit("png", doc, idx)>>

(* The document a file's content is, "" when it is none: an empty file, a  *)
(* prefix of an upload or a mix of two.                                    *)
DocOf(content) ==
    IF \E d \in DOMAIN Docs : content = Bytes(d)
    THEN CHOOSE d \in DOMAIN Docs : content = Bytes(d)
    ELSE ""

Request(route, has_pdf, filename, doc, data) ==
    [route |-> route, has_pdf |-> has_pdf, filename |-> filename, doc |-> doc, form |-> data]

RequestChoices ==
    { Request("detect",  TRUE,  "",           "photo",   <<>>),
      Request("detect",  TRUE,  "upload.pdf", "mixed",   [pageIndex |-> "1.9"]),
      Request("detect",  TRUE,  "a.pdf",      "damaged", [pageIndex |-> "0"]),
      Request("detect",  TRUE,  "a.pdf",      "nopages", [pageIndex |-> "7"]),
      Request("detect",  TRUE,  "upload.pdf", "broken",  [pageIndex |-> "-3"]),
      Request("detect",  FALSE, "",           "photo",   <<>>),
      Request("extract", TRUE,  "",           "photo",   [pageIndex |-> "abc"]),
      Request("extract", TRUE,  "a.pdf",      "mixed",   [pageIndex |-> "7"]) }

(* The response: the status, the error text (by the statement that         *)
(* raised), the label of a classification, the bytes of a sent file.       *)
Response(status, error, format, body) ==
    [status |-> status, error |-> error, format |-> format, body |-> body]

NoBody == <<>>

NoResp == Response(0, "", "", NoBody)

(* A request's locals: the statement it is at, the inode file.save (then   *)
(* pix.save) writes and the units written so far, the document opened and  *)
(* whether its handle is open, the page index, the inode send_file         *)
(* opened, and the response being returned.                                *)
Loc0 ==
    [pc |-> "start", fd |-> 0, off |-> 0, doc |-> "", open |-> FALSE, idx |-> 0,
     pfd |-> 0, png |-> 0, resp |-> NoResp]

(* filename = file.filename or "upload.pdf"                                *)
filename_of(q) == IF q.filename = "" THEN "upload.pdf" ELSE q.filename

filepath(q) == path_join(UPLOAD_FOLDER, filename_of(q))

image_path(q) == path_join(UPLOAD_FOLDER, filename_of(q) \o "_design.png")

(* open(path, "wb"): the inode the path names, emptied, or a new one.      *)
open_write(ln, id, p) ==
    IF p \in DOMAIN ln
    THEN [links |-> ln, idata |-> [id EXCEPT ![ln[p]] = <<>>]]
    ELSE [links |-> (p :> (Len(id) + 1)) @@ ln, idata |-> Append(id, <<>>)]

(* write(chunk) at offset off: the units under the chunk are replaced,     *)
(* the others kept, and a gap before off reads as zeros.                   *)
put(content, off, chunk) ==
    [i \in 1 .. Max(Len(content), off + Len(chunk)) |->
        IF i > off /\ i <= off + Len(chunk) THEN chunk[i - off]
        ELSE IF i <= Len(content) THEN content[i]
        ELSE Hole]

(* The next chunk of an upload of which off units are written.             *)
next_chunk(doc, off) == SubSeq(Bytes(doc), off + 1, Min(off + ChunkUnits, Docs[doc].units))

(* os.remove(path), its exception swallowed.                               *)
remove(ln, p) == [q \in DOMAIN ln \ {p} |-> ln[q]]

SInit ==
    /\ reqs \in [Reqs -> RequestChoices]
    /\ loc = [r \in Reqs |-> Loc0]
    /\ links = <<>>
    /\ idata = <<>>
    /\ dArgs = <<>> /\ dLast = "idle" /\ dPrevFmt = "" /\ dFmt = ""
    /\ page = <<>> /\ form = <<>> /\ pPhase = "idle" /\ out = <<>>

(* Lines 221-226: the 400 without a file field, else on to file.save.      *)
Receive(r) ==
    /\ loc[r].pc = "start"
    /\ loc' = IF reqs[r].has_pdf
              THEN [loc EXCEPT ![r].pc = "save"]
              ELSE [loc EXCEPT ![r].pc = "done",
                               ![r].resp = Response(400, "No file field 'pdf'", "", NoBody)]
    /\ UNCHANGED <<reqs, links, idata>>
    /\ UNCHANGED dvars
    /\ UNCHANGED pvars

(* file.save, first step: the destination is opened for writing.           *)
SaveOpen(r) ==
    /\ loc[r].pc = "save"
    /\ \E w \in {open_write(links, idata, filepath(reqs[r]))} :
         /\ links' = w.links
         /\ idata' = w.idata
         /\ loc' = [loc EXCEPT ![r].pc = "write", ![r].fd = w.links[filepath(reqs[r])]]
    /\ UNCHANGED reqs
    /\ UNCHANGED dvars
    /\ UNCHANGED pvars

(* file.save raises before the destination exists: line 227 is outside     *)
(* the inner try, so the handler of line 305 answers.                      *)
SaveOpenFails(r) ==
    /\ loc[r].pc = "save"
    /\ loc' = [loc EXCEPT ![r].pc = "done", ![r].resp = Response(500, "save", "", NoBody)]
    /\ UNCHANGED <<reqs, links, idata>>
    /\ UNCHANGED dvars
    /\ UNCHANGED pvars

(* file.save, the copy loop: the next chunk of the upload is written at    *)
(* this writer's offset into the inode it opened; after the last chunk     *)
(* the destination is closed and line 230 is next.                         *)
SaveWrite(r) ==
    /\ loc[r].pc = "write"
    /\ \E chunk \in {next_chunk(reqs[r].doc, loc[r].off)} :
         /\ idata' = [idata EXCEPT ![loc[r].fd] = put(idata[loc[r].fd], loc[r].off, chunk)]
         /\ loc' = [loc EXCEPT
                      ![r].off = loc[r].off + Len(chunk),
                      ![r].pc = IF loc[r].off + Len(chunk) = Docs[reqs[r].doc].units
                                THEN "open" ELSE "write"]
    /\ UNCHANGED <<reqs, links>>
    /\ UNCHANGED dvars
    /\ UNCHANGED pvars

(* file.save raises while copying (the stream breaks, the disk is full):   *)
(* again line 305 answers, and nothing removes the file.                   *)
SaveWriteFails(r) ==
    /\ loc[r].pc = "write"
    /\ loc' = [loc EXCEPT ![r].pc = "done", ![r].resp = Response(500, "save", "", NoBody)]
    /\ UNCHANGED <<reqs, links, idata>>
    /\ UNCHANGED dvars
    /\ UNCHANGED pvars

(* Line 230: fitz.open(filepath) reads what the path names now.  It raises *)
(* when the path is gone and when the bytes are not a document.            *)
Open(r) ==
    /\ loc[r].pc = "open"
    /\ \E d \in {IF filepath(reqs[r]) \in DOMAIN links
                 THEN DocOf(idata[links[filepath(reqs[r])]]) ELSE ""} :
         loc' = IF d # "" /\ Docs[d].opens
                THEN [loc EXCEPT ![r].pc = "load", ![r].open = TRUE, ![r].doc = d]
                ELSE [loc EXCEPT ![r].pc = "close",
                                 ![r].resp = Response(500, "open", "", NoBody)]
    /\ UNCHANGED <<reqs, links, idata>>
    /\ UNCHANGED dvars
    /\ UNCHANGED pvars

(* Lines 231-233: the page index clamped into the document, load_page.     *)
Load(r) ==
    /\ loc[r].pc = "load"
    /\ LET n == Len(Docs[loc[r].doc].pages)
           page_index == Max(0, Min(safe_int(form_get(reqs[r].form, "pageIndex"), 0), n - 1))
       IN  loc' = IF n = 0
                  THEN [loc EXCEPT ![r].pc = "close",
                                   ![r].resp = Response(500, "load", "", NoBody)]
                  ELSE [loc EXCEPT ![r].pc = "compute", ![r].idx = page_index]
    /\ UNCHANGED <<reqs, links, idata>>
    /\ UNCHANGED dvars
    /\ UNCHANGED pvars

(* Lines 234-295 of detect_art_format: the analysis and the JSON answer.   *)
Classify(r) ==
    /\ loc[r].pc = "compute"
    /\ reqs[r].route = "detect"
    /\ loc' = IF loc[r].idx \in Docs[loc[r].doc].unreadable
              THEN [loc EXCEPT ![r].pc = "close",
                               ![r].resp = Response(500, "compute", "", NoBody)]
              ELSE [loc EXCEPT
                      ![r].pc = "close",
                      ![r].resp = Response(200, "",
                                    Analysis(Docs[loc[r].doc].pages[loc[r].idx + 1],
                                             reqs[r].form).format, NoBody)]
    /\ UNCHANGED <<reqs, links, idata>>
    /\ UNCHANGED dvars
    /\ UNCHANGED pvars

(* Lines 325-327 of extract_design_image: the pixmap, and pix.save opening *)
(* its destination for writing.                                            *)
Render(r) ==
    /\ loc[r].pc = "compute"
    /\ reqs[r].route = "extract"
    /\ IF loc[r].idx \in Docs[loc[r].doc].unreadable
       THEN /\ loc' = [loc EXCEPT ![r].pc = "close",
                                  ![r].resp = Response(500, "compute", "", NoBody)]
            /\ UNCHANGED <<links, idata>>
       ELSE \E w \in {open_write(links, idata, image_path(reqs[r]))} :
              /\ links' = w.links
              /\ idata' = w.idata
              /\ loc' = [loc EXCEPT ![r].pc = "png", ![r].pfd = w.links[image_path(reqs[r])]]
    /\ UNCHANGED reqs
    /\ UNCHANGED dvars
    /\ UNCHANGED pvars

(* Line 327, pix.save: the PNG is written into the inode opened.           *)
RenderWrite(r) ==
    /\ loc[r].pc = "png"
    /\ idata' = [idata EXCEPT ![loc[r].pfd] = put(idata[loc[r].pfd], 0,
                                                  PngBytes(loc[r].doc, loc[r].idx))]
    /\ loc' = [loc EXCEPT ![r].pc = "send"]
    /\ UNCHANGED <<reqs, links>>
    /\ UNCHANGED dvars
    /\ UNCHANGED pvars

(* Line 328: send_file opens the PNG; its bytes are read when the          *)
(* response is written, after the finally block.                           *)
Send(r) ==
    /\ loc[r].pc = "send"
    /\ loc' = IF image_path(reqs[r]) \in DOMAIN links
              THEN [loc EXCEPT ![r].pc = "close", ![r].png = links[image_path(reqs[r])],
                               ![r].resp = Response(200, "", "", NoBody)]
              ELSE [loc EXCEPT ![r].pc = "close",
                               ![r].resp = Response(500, "send", "", NoBody)]
    /\ UNCHANGED <<reqs, links, idata>>
    /\ UNCHANGED dvars
    /\ UNCHANGED pvars

(* Lines 297-300: doc.close(); with `doc` unbound the NameError is         *)
(* swallowed.                                                              *)
Close(r) ==
    /\ loc[r].pc = "close"
    /\ loc' = [loc EXCEPT ![r].pc = "remove", ![r].open = FALSE]
    /\ UNCHANGED <<reqs, links, idata>>
    /\ UNCHANGED dvars
    /\ UNCHANGED pvars

(* Lines 301-304: os.remove(filepath) removes whatever the path names.     *)
Remove(r) ==
    /\ loc[r].pc = "remove"
    /\ links' = remove(links, filepath(reqs[r]))
    /\ loc' = [loc EXCEPT ![r].pc = "respond"]
    /\ UNCHANGED <<reqs, idata>>
    /\ UNCHANGED dvars
    /\ UNCHANGED pvars

(* The response leaves: a sent file is read now.                           *)
Respond(r) ==
    /\ loc[r].pc = "respond"
    /\ loc' = [loc EXCEPT ![r].pc = "done",
                          ![r].resp.body = IF loc[r].png = 0 THEN NoBody ELSE idata[loc[r].png]]
    /\ UNCHANGED <<reqs, links, idata>>
    /\ UNCHANGED dvars
    /\ UNCHANGED pvars

SNext ==
    \E r \in Reqs :
       \/ Receive(r)
       \/ SaveOpen(r)
       \/ SaveOpenFails(r)
       \/ SaveWrite(r)
       \/ SaveWriteFails(r)
       \/ Open(r)
       \/ Load(r)
       \/ Classify(r)
       \/ Render(r)
       \/ RenderWrite(r)
       \/ Send(r)
       \/ Close(r)
       \/ Remove(r)
       \/ Respond(r)

SpecServer == SInit /\ [][SNext]_vars

---------------------------------------------------------------------------
(* The cascade as section 4.5 of the specification words it: rule k's      *)
(* condition, the first rule whose condition holds, and that rule's label. *)

CascadeRuleHolds(k, a) ==
    CASE k = 1 -> /\ FLE(a.raster_cov, Pct(2))
                  /\ \/ FGE(a.vector_cov, Pct(3))
                     \/ FGE(a.text_cov, PerMille(25))
                     \/ a.raster_count = 0
                     \/ a.vector_segments >= 20
      [] k = 2 -> FGE(a.raster_cov, FAdd(a.vector_cov, Pct(1)))
      [] k = 3 -> FGE(a.vector_cov, FAdd(a.raster_cov, Pct(12)))
      [] k = 4 -> FGE(a.raster_cov, Pct(15)) /\ FLE(a.vector_cov, Pct(30))
      [] k = 5 -> FLE(a.raster_cov, Pct(3)) /\ a.vector_segments >= 40
      [] k = 6 -> /\ a.vector_segments >= 18
                  /\ FLT(FZero, a.native_dpi_min)
                  /\ FLT(a.native_dpi_min, FromInt(40))
                  /\ FGE(a.raster_cov, Pct(10))
      [] OTHER -> TRUE

(* The first rule from rule k on whose condition holds.                    *)
RECURSIVE CascadeFirstFrom(_, _)
CascadeFirstFrom(k, a) ==
    IF CascadeRuleHolds(k, a) THEN k ELSE CascadeFirstFrom(k + 1, a)

CascadeFirstRule(a) == CascadeFirstFrom(1, a)

CascadeLabel(k) ==
    CASE k \in {2, 4, 7} -> "has raster"
      [] k \in {1, 3, 5, 6} -> "has vector"

(* C1: every call of decide_format_coverage returns one of the two labels  *)
(* "has raster" / "has vector", and it is the label of the first rule of   *)
(* the ordered cascade (rules 1 to 7) whose condition holds.               *)
C1_CascadeTotal ==
    dLast # "none" =>
        /\ dFmt \in {"has raster", "has vector"}
        /\ ReturnOn(dArgs) = CascadeFirstRule(dArgs)
        /\ dFmt = CascadeLabel(CascadeFirstRule(dArgs))

(* C1 witness: a call that fell through rules 1 to 5 and left by rule 6.   *)
C1_Witness ==
    /\ dLast = "call"
    /\ CascadeFirstRule(dArgs) = 6
    /\ dFmt = "has vector"

(* C2 as claimed: raising rasterCoverage, the other arguments kept, never  *)
(* turns a "has raster" result into "has vector".                          *)
C2_RasterMonotone ==
    (dLast = "raise_raster" /\ dPrevFmt = HAS_RASTER) => dFmt = HAS_RASTER

(* C2 as amended: raising rasterCoverage, the other arguments kept, turns  *)
(* a "has raster" result into "has vector" only where the call at the      *)
(* higher rasterCoverage leaves by the low-detail-raster override (rule 6, *)
(* which asks for rasterCoverage >= 0.10).                                 *)
C2_RasterMonotoneButOverride ==
    (dLast = "raise_raster" /\ dPrevFmt = HAS_RASTER /\ ReturnOn(dArgs) # 6)
        => dFmt = HAS_RASTER

(* C2 witness: rasterCoverage was raised from a "has raster" call of 40    *)
(* or more segments, and the call at the higher rasterCoverage left by     *)
(* rule 4 and stayed raster.                                               *)
C2_Witness ==
    /\ dLast = "raise_raster"
    /\ dPrevFmt = HAS_RASTER
    /\ dFmt = HAS_RASTER
    /\ dArgs.vector_segments >= PureVectorSegs
    /\ ReturnOn(dArgs) = 4

(* C3: raising effectiveVectorCoverage, the other arguments kept, never    *)
(* turns a "has vector" result into "has raster".                          *)
C3_VectorMonotone ==
    (dLast = "raise_vector" /\ dPrevFmt = HAS_VECTOR) => dFmt = HAS_VECTOR

(* C3 witness: effectiveVectorCoverage was raised from a call that the     *)
(* low-detail override made "has vector", and the result stayed vector.    *)
C3_Witness ==
    /\ dLast = "raise_vector"
    /\ dPrevFmt = HAS_VECTOR
    /\ dFmt = HAS_VECTOR
    /\ ReturnOn(dArgs) = 6

(* The region of scenario 3: one raster covering 20% of the clip, dpiMin   *)
(* 10, 25 vector segments, no text, effectiveVectorCoverage 0 to 0.30.     *)
Scenario3 ==
    /\ dLast # "none"
    /\ dArgs.raster_cov = Pct(20)
    /\ dArgs.raster_count = 1
    /\ dArgs.native_dpi_min = FromInt(10)
    /\ dArgs.vector_segments = 25
    /\ dArgs.text_cov = FZero
    /\ FLE(dArgs.vector_cov, Pct(30))

(* C5 as claimed: in scenario 3 the low-detail-raster override (rule 6)    *)
(* is the rule that fires and the label is "has vector".                   *)
C5_Scenario3Vector ==
    Scenario3 => (ReturnOn(dArgs) = 6 /\ dFmt = HAS_VECTOR)

(* C5 as amended: in scenario 3 the override never fires; the clear raster *)
(* margin (rule 2) fires when effectiveVectorCoverage <= 0.19, the         *)
(* raster-dominant-but-close rule (rule 4) otherwise, and the label is     *)
(* "has raster".                                                           *)
C5_Scenario3Raster ==
    Scenario3 =>
        /\ dFmt = HAS_RASTER
        /\ ReturnOn(dArgs) = (IF FLE(dArgs.vector_cov, Pct(19)) THEN 2 ELSE 4)

(* C5 witness: scenario 3 with effectiveVectorCoverage at 0.30, decided    *)
(* by rule 4.                                                              *)
C5_Witness ==
    /\ Scenario3
    /\ dLast = "call"
    /\ dArgs.vector_cov = Pct(30)
    /\ ReturnOn(dArgs) = 4
    /\ dFmt = HAS_RASTER

---------------------------------------------------------------------------
(* Claims about the analysis of a page.                                    *)

Responded == pPhase = "responded"

(* C4: a page with no raster image has rasterCoverage 0 and is labelled    *)
(* "has vector", whatever its drawings, its text and the clip.             *)
C4_NoImagesVector ==
    (Responded /\ page.images = <<>>) =>
        /\ out.a.raster_cov = FZero
        /\ out.a.raster_count = 0
        /\ out.a.format = HAS_VECTOR

(* C4 witness: a blank page (no image, no drawing, no text) analysed over  *)
(* its bottom half and labelled "has vector".                              *)
C4_Witness ==
    /\ Responded
    /\ page.images = <<>> /\ page.blocks = <<>> /\ page.drawings = <<>>
    /\ out.a.region = "bottom-half"
    /\ out.a.vector_cov = FZero /\ out.a.vector_segments = 0
    /\ out.a.format = HAS_VECTOR

InUnit(f) == FLE(FZero, f) /\ FLE(f, FOne)

(* C6: over a valid clip (zero-area clips included) rasterCoverage,        *)
(* textCoverage, drawingCoverage and effectiveVectorCoverage are all       *)
(* between 0 and 1, overlapping objects included.                          *)
C6_CoverageRange ==
    (Responded /\ is_valid(out.a.clip)) =>
        /\ InUnit(out.a.raster_cov)
        /\ InUnit(out.a.text_cov)
        /\ InUnit(out.a.draw_cov)
        /\ InUnit(out.a.vector_cov)

(* C6 witness: overlapping images whose summed intersections exceed the    *)
(* area of a valid clip, with rasterCoverage reported as 1.                *)
C6_Witness ==
    /\ Responded
    /\ is_valid(out.a.clip)
    /\ FLT(clip_area_of(out.a.clip), raster_total(page.images, out.a.clip))
    /\ out.a.raster_cov = FOne

(* The rect is inside the page.                                            *)
WithinPage(r, pr) ==
    r.x0 >= pr.x0 /\ r.y0 >= pr.y0 /\ r.x1 <= pr.x1 /\ r.y1 <= pr.y1

(* The request asks for the default region: the origin tag is not the      *)
(* page-space marker, or a field is missing or is not a number.            *)
AsksDefault(data) ==
    \/ "coordsOrigin" \notin DOMAIN data
    \/ data["coordsOrigin"] \notin {"pdf", "PDF", "Pdf"}
    \/ \E k \in {"x", "y", "width", "height"} :
          k \notin DOMAIN data \/ data[k] \notin DOMAIN FloatOf

(* C7: for every request the clip rect_from_params returns has x1 >= x0    *)
(* and y1 >= y0 and lies within the page, and it is the bottom half of the *)
(* page when the request asks for the default region.                      *)
C7_ClipValid ==
    Responded =>
        /\ out.a.clip.x1 >= out.a.clip.x0
        /\ out.a.clip.y1 >= out.a.clip.y0
        /\ WithinPage(out.a.clip, page.rect)
        /\ AsksDefault(form) =>
              out.a.clip = Rect(page.rect.x0, page.rect.y0 + PageHalfH, page.rect.x1, page.rect.y1)

(* The single drawing of the page, and what the claim measures on it.      *)
OneDrawing == Responded /\ Len(page.drawings) = 1 /\ page.drawings[1].has_rect
TheDrawing == page.drawings[1]
InterArea  == get_area(intersect(TheDrawing.rect, out.a.clip))
InterFrac  == FDiv(InterArea, FMax(FOne, get_area(out.a.clip)))
RectOp     == \E i \in 1 .. Len(TheDrawing.items) : TheDrawing.items[i] \in {"re", "RE"}
StrokeFree == FLE(TheDrawing.width, PerMille(250))
Hairline   == StrokeFree /\ ~TheDrawing.fill
BigPart    == FGE(InterFrac, Pct(15))
IsPanel    ==
    \/ RectOp /\ BigPart
    \/ TheDrawing.fill /\ StrokeFree /\ Len(TheDrawing.items) <= 5 /\ BigPart

(* x is y up to the rounding of a few float operations: each is at most    *)
(* the other times 1 + 2^-40.                                              *)
RelTol == FAdd(FOne, FromDyadic(1, 0 - 40))

Approx(x, y) == FLE(x, FMul(y, RelTol)) /\ FLE(y, FMul(x, RelTol))

(* C10 as claimed: a single rectangle-operator drawing, filled, stroke-    *)
(* free, of at most 5 items, whose intersection with the clip is at least  *)
(* 15% of the clip area gives drawingCoverage = 0.05 x objectArea /        *)
(* clipArea; a rectangle-operator drawing below 15% weighs 0.15 and a      *)
(* non-rectangle, non-panel drawing 0.30.                                  *)
C10_PanelWeight ==
    OneDrawing =>
        /\ (/\ RectOp /\ TheDrawing.fill /\ StrokeFree /\ Len(TheDrawing.items) <= 5
            /\ FLT(FZero, get_area(out.a.clip))
            /\ FGE(FDiv(InterArea, get_area(out.a.clip)), Pct(15)))
              => Approx(out.a.draw_cov,
                        FMul(Pct(5), FDiv(get_area(TheDrawing.rect), get_area(out.a.clip))))
        /\ (RectOp /\ ~BigPart) => Approx(out.a.draw_cov, FMul(Pct(15), InterFrac))
        /\ (~RectOp /\ ~IsPanel) => Approx(out.a.draw_cov, FMul(Pct(30), InterFrac))

(* C10 as amended: areas are intersection areas and the clip area is       *)
(* max(1, clipArea).  Such a panel gives drawingCoverage = 0.05 x          *)
(* intersectionArea / max(1, clipArea); a rectangle-operator drawing below *)
(* 15% gives 0.15 x and a non-rectangle, non-panel drawing 0.30 x that     *)
(* ratio, unless the drawing is an unfilled hairline (no fill, stroke      *)
(* width <= 0.25), which contributes nothing.  Equality is up to float     *)
(* rounding.                                                               *)
C10_PanelWeightIntersection ==
    OneDrawing =>
        /\ (RectOp /\ TheDrawing.fill /\ StrokeFree /\ Len(TheDrawing.items) <= 5 /\ BigPart)
              => Approx(out.a.draw_cov, FMul(Pct(5), InterFrac))
        /\ (RectOp /\ ~BigPart /\ ~Hairline) => Approx(out.a.draw_cov, FMul(Pct(15), InterFrac))
        /\ (~RectOp /\ ~IsPanel /\ ~Hairline) => Approx(out.a.draw_cov, FMul(Pct(30), InterFrac))
        /\ Hairline => out.a.draw_cov = FZero

(* C10 witness: a single filled, stroke-free rectangle of one item that    *)
(* reaches beyond the clip and covers at least 15% of it, weighted 0.05.   *)
C10_Witness ==
    /\ OneDrawing
    /\ RectOp /\ TheDrawing.fill /\ StrokeFree /\ Len(TheDrawing.items) <= 5 /\ BigPart
    /\ FLT(InterArea, get_area(TheDrawing.rect))
    /\ Approx(out.a.draw_cov, FMul(Pct(5), InterFrac))
    /\ FLT(FZero, out.a.draw_cov)

---------------------------------------------------------------------------
(* Claims about the request handlers.                                      *)

Done(r) == loc[r].pc = "done"

(* What a request answers when it is the only one in flight: the 400, a    *)
(* failure of the save, or what its own upload and form determine.         *)
AloneOutcomes(q) ==
    LET d == Docs[q.doc]
        n == Len(d.pages)
        i == Max(0, Min(safe_int(form_get(q.form, "pageIndex"), 0), n - 1))
        fail(stage) == Response(500, stage, "", NoBody)
    IN  IF ~q.has_pdf THEN {Response(400, "No file field 'pdf'", "", NoBody)}
        ELSE {fail("save")} \cup
             (IF ~d.opens THEN {fail("open")}
              ELSE IF n = 0 THEN {fail("load")}
              ELSE IF i \in d.unreadable THEN {fail("compute")}
              ELSE IF q.route = "extract"
                   THEN {Response(200, "", "", PngBytes(q.doc, i))}
                   ELSE {Response(200, "", Analysis(d.pages[i + 1], q.form).format, NoBody)})

(* C8: with requests processed concurrently, in any interleaving of their  *)
(* steps, every finished request's outcome is one it has when run alone,   *)
(* uploads of the same filename or of no filename included.                *)
C8_Isolation ==
    \A r \in Reqs : Done(r) => loc[r].resp \in AloneOutcomes(reqs[r])

(* C9: once a request that started saving an upload has returned its       *)
(* response, its document handle is closed and the file it saved is no     *)
(* longer in the upload folder; and a failed request carries no label.     *)
C9_Release ==
    \A r \in Reqs :
       (Done(r) /\ loc[r].fd # 0) =>
          /\ ~loc[r].open
          /\ \A p \in DOMAIN links : links[p] # loc[r].fd
          /\ (loc[r].resp.status # 200 => loc[r].resp.format = "")

=============================================================================
